---------------------------- MODULE Spec2Model ----------------------------
(***************************************************************************)
(* Group-by list aggregation (polars-core agg_list.rs), the Python          *)
(* binding's from_arrow (polars-python construction.rs) and the amortized   *)
(* per-group iterators (polars-expr group_iter.rs).                         *)
(*                                                                          *)
(* Two specifications share the module:                                     *)
(*   Spec      a source column and a group partition are chosen, agg_list   *)
(*             runs on them, the finished list column is handed to          *)
(*             from_arrow;                                                   *)
(*   SpecIter  an aggregation context is chosen, iter_groups builds the     *)
(*             iterator of its state, the consumer advances it.             *)
(* Rows are numbered from 0 as in the source; TLA+ sequences start at 1,    *)
(* so row i of an array a is a[i + 1].                                      *)
(***************************************************************************)
EXTENDS Integers, Sequences, FiniteSets, TLC

VARIABLES
    dtype,      \* storage category of the source column: "numeric", "object",
                \* "null", "struct"
    ca,         \* the source column: a sequence of chunks, each a sequence of cells
    groups,     \* the group partition (GroupsType)
    out,        \* the list column agg_list returned
    pyseries,   \* the series from_arrow built from the list array
    pc,         \* "ready" -> "aggregated" -> "imported"
    agg_state,  \* AggState of the aggregation context
    column,     \* the context's values: a sequence of chunks
    ngroups,    \* self.groups.len()
    iter,       \* the fields of the iterator iter_groups returned
    heap,       \* the series containers allocated so far, by address
    held,       \* the items the consumer received and still holds, in order
    log,        \* what each received item showed when it was received
    last        \* the outcome of the latest advance: "none", "item", "end"

aggVars  == <<dtype, ca, groups, out, pyseries, pc>>
iterVars == <<agg_state, column, ngroups, iter, heap, held, log, last>>
vars     == <<dtype, ca, groups, out, pyseries, pc,
              agg_state, column, ngroups, iter, heap, held, log, last>>

----------------------------------------------------------------------------
(* Bounds of the model. *)

MaxRows   == 3    \* rows of a source column
MaxGroups == 2    \* groups of a partition
MaxTotal  == 2    \* rows referenced by a partition, over all its groups
MaxChunks == 3    \* chunks of an aggregation context's values
MaxVals   == 3    \* values of an aggregation context, over all chunks
MaxLen    == 3    \* groups of an aggregation context

----------------------------------------------------------------------------
(* Generic helpers. *)

SeqsUpTo(S, k) == UNION {[1..m -> S] : m \in 0..k}

RECURSIVE Sum(_)
Sum(s) == IF s = <<>> THEN 0 ELSE Head(s) + Sum(Tail(s))

RECURSIVE Concat(_)
Concat(ss) == IF ss = <<>> THEN <<>> ELSE Head(ss) \o Concat(Tail(ss))

----------------------------------------------------------------------------
(* Columns.  A cell is a value slot and its validity bit.  Row i of a       *)
(* column holds the value ValueAt(i): all rows differ, so a gather that     *)
(* picks a wrong row always shows in the values.                            *)

ValueAt(i) == 10 + i

Cells(valid) == [k \in 1..Len(valid) |-> [v |-> ValueAt(k - 1), ok |-> valid[k]]]

\* The ways n rows are laid out in chunks: one chunk, or two chunks cut
\* after row k (either may be empty).
Layouts(cells) ==
    {<<cells>>} \cup
    {<<SubSeq(cells, 1, k), SubSeq(cells, k + 1, Len(cells))>> : k \in 0..Len(cells)}

\* ChunkedArray::len
len(chunked) == Sum([c \in 1..Len(chunked) |-> Len(chunked[c])])

\* ChunkedArray::rechunk followed by downcast_iter().next().unwrap(): the
\* single array holding all rows.
rechunk(chunked) == Concat(chunked)

\* PrimitiveArray::values: the flat value buffer, null slots included.
values(arr) == [k \in 1..Len(arr) |-> arr[k].v]

\* PrimitiveArray::validity (read only when null_count > 0).
validity(arr) == [k \in 1..Len(arr) |-> arr[k].ok]

null_count(arr) == Cardinality({k \in 1..Len(arr) : ~arr[k].ok})

----------------------------------------------------------------------------
(* Group partitions.  GroupsType::Idx keeps one index list per group,       *)
(* GroupsType::Slice one [first, len] pair per group.                       *)

RECURSIVE Cut(_, _)
Cut(flat, lens) ==
    IF lens = <<>> THEN <<>>
    ELSE <<SubSeq(flat, 1, Head(lens))>>
         \o Cut(SubSeq(flat, Head(lens) + 1, Len(flat)), Tail(lens))

\* Every index-list partition of at most MaxGroups groups referencing at
\* most MaxTotal rows of a column of n rows, all indices in bounds.
IdxPartitions(n) ==
    UNION {{Cut(flat, lens) :
               flat \in [1..m -> 0..(n - 1)],
               lens \in {l \in SeqsUpTo(0..m, MaxGroups) : Sum(l) = m}} :
           m \in 0..MaxTotal}

\* Every slice partition within the same bounds, all slices in bounds.
SlicePartitions(n) ==
    {s \in SeqsUpTo((0..n) \X (0..MaxTotal), MaxGroups) :
        /\ \A g \in 1..Len(s) : s[g][1] + s[g][2] <= n
        /\ Sum([g \in 1..Len(s) |-> s[g][2]]) <= MaxTotal}

\* No partition handed over yet.
NoGroups == [form |-> "none", all |-> <<>>, slices |-> <<>>]

GroupsIdx(all)  == [form |-> "Idx",   all |-> all,  slices |-> <<>>]
GroupsSlice(sl) == [form |-> "Slice", all |-> <<>>, slices |-> sl]

\* GroupsType::len
groups_len(g) == IF g.form = "Idx" THEN Len(g.all) ELSE Len(g.slices)

\* The declared length of group i (1-based) of the partition.
group_len(g, i) == IF g.form = "Idx" THEN Len(g.all[i]) ELSE g.slices[i][2]

----------------------------------------------------------------------------
(* The list column agg_list returns: the offsets, the flattened child       *)
(* values, the child's validity (has = FALSE: no validity buffer) and the   *)
(* fast-explode flag.  The list array itself is built with validity None.   *)

NoValidity == [has |-> FALSE, bits |-> <<>>]

ListColumn(offsets, child, child_validity, fast) ==
    [offsets |-> offsets, values |-> child, validity |-> child_validity,
     fast_explode |-> fast]

NoColumn == ListColumn(<<>>, <<>>, NoValidity, FALSE)

\* The accumulators of a pass over the groups, as agg_list initialises them:
\* offsets = [0], length_so_far = 0, list_values = [], can_fast_explode = true.
PassInit ==
    [can_fast_explode |-> TRUE, offsets |-> <<0>>, length_so_far |-> 0,
     list_values |-> <<>>]

\* MutableBitmap::from_len_set(n): n bits, all set.
from_len_set(n) == [k \in 1..n |-> TRUE]

----------------------------------------------------------------------------
(* impl AggList for ChunkedArray<T: PolarsNumericType>, GroupsType::Idx.    *)

\* Mutant of GatherIdx: every element of a group is read at the group's
\* first row.
GatherIdxFirstRow(vals, idx) == [k \in 1..Len(idx) |-> vals[idx[1] + 1]]

\* idx.iter().map(|idx| *values.get_unchecked(*idx as usize))
GatherIdx(vals, idx) == [k \in 1..Len(idx) |-> vals[idx[k] + 1]]

\* Mutant of IdxStep: the offset is pushed before the group's length is
\* added to length_so_far.
IdxStepStaleOffset(vals, idx, st) ==
    LET idx_len == Len(idx)
    IN  [can_fast_explode |-> IF idx_len = 0 THEN FALSE ELSE st.can_fast_explode,
         length_so_far    |-> st.length_so_far + idx_len,
         list_values      |-> st.list_values \o [k \in 1..idx_len |-> vals[idx[k] + 1]],
         offsets          |-> Append(st.offsets, st.length_so_far)]

\* Mutant of IdxStep: the flag is assigned from the current group alone, so
\* a later non-empty group sets it again.
IdxStepFlagLastGroup(vals, idx, st) ==
    LET idx_len == Len(idx)
        length_so_far == st.length_so_far + idx_len
    IN  [can_fast_explode |-> idx_len /= 0,
         length_so_far    |-> length_so_far,
         list_values      |-> st.list_values \o [k \in 1..idx_len |-> vals[idx[k] + 1]],
         offsets          |-> Append(st.offsets, length_so_far)]

\* One turn of groups.iter().for_each(|(_, idx)| ...), for group g.
IdxStep(vals, idx, st) ==
    LET idx_len == Len(idx)
        length_so_far == st.length_so_far + idx_len
    IN  [can_fast_explode |-> IF idx_len = 0 THEN FALSE ELSE st.can_fast_explode,
         length_so_far    |-> length_so_far,
         list_values      |-> st.list_values \o GatherIdx(vals, idx),
         offsets          |-> Append(st.offsets, length_so_far)]

RECURSIVE IdxPass(_, _, _, _)
IdxPass(vals, all, g, st) ==
    IF g > Len(all) THEN st
    ELSE IdxPass(vals, all, g + 1, IdxStep(vals, all[g], st))

\* Mutant of IdxValidityGroup: the bit cleared is the one at the source row,
\* not the one at the output position.
RECURSIVE IdxValidityGroupByRow(_, _, _, _)
IdxValidityGroupByRow(old_validity, idx, k, st) ==
    IF k > Len(idx) THEN st
    ELSE IdxValidityGroupByRow(old_validity, idx, k + 1,
            [bits  |-> IF ~old_validity[idx[k] + 1] /\ idx[k] + 1 <= Len(st.bits)
                       THEN [st.bits EXCEPT ![idx[k] + 1] = FALSE]
                       ELSE st.bits,
             count |-> st.count + 1])

\* for i in idx.as_slice(): clear bit `count` when the source bit of row i
\* is unset, then count += 1.  st = [bits, count].
RECURSIVE IdxValidityGroup(_, _, _, _)
IdxValidityGroup(old_validity, idx, k, st) ==
    IF k > Len(idx) THEN st
    ELSE IdxValidityGroup(old_validity, idx, k + 1,
            [bits  |-> IF ~old_validity[idx[k] + 1]
                       THEN [st.bits EXCEPT ![st.count + 1] = FALSE]
                       ELSE st.bits,
             count |-> st.count + 1])

RECURSIVE IdxValidityPass(_, _, _, _)
IdxValidityPass(old_validity, all, g, st) ==
    IF g > Len(all) THEN st
    ELSE IdxValidityPass(old_validity, all, g + 1,
            IdxValidityGroup(old_validity, all[g], 1, st))

IdxValidity(arr, all, list_values) ==
    IF null_count(arr) > 0
    THEN [has  |-> TRUE,
          bits |-> IdxValidityPass(validity(arr), all, 1,
                       [bits |-> from_len_set(Len(list_values)), count |-> 0]).bits]
    ELSE NoValidity

AggListNumericIdx(self, all) ==
    LET arr == rechunk(self)
        st  == IdxPass(values(arr), all, 1, PassInit)
    IN  ListColumn(st.offsets, st.list_values,
                   IdxValidity(arr, all, st.list_values), st.can_fast_explode)

----------------------------------------------------------------------------
(* impl AggList for ChunkedArray<T: PolarsNumericType>, GroupsType::Slice.  *)

\* Mutant of CopySlice: the copy starts at row 0 whatever `first` is.
CopySliceFromStart(vals, first, length) == SubSeq(vals, 1, length)

\* &values[first as usize..(first + len) as usize]
CopySlice(vals, first, length) == SubSeq(vals, first + 1, first + length)

\* One turn of groups.iter().for_each(|&[first, len]| ...).
SliceStep(vals, first, length, st) ==
    LET length_so_far == st.length_so_far + length
    IN  [can_fast_explode |-> IF length = 0 THEN FALSE ELSE st.can_fast_explode,
         length_so_far    |-> length_so_far,
         list_values      |-> st.list_values \o CopySlice(vals, first, length),
         offsets          |-> Append(st.offsets, length_so_far)]

RECURSIVE SlicePass(_, _, _, _)
SlicePass(vals, slices, g, st) ==
    IF g > Len(slices) THEN st
    ELSE SlicePass(vals, slices, g + 1,
                   SliceStep(vals, slices[g][1], slices[g][2], st))

\* for i in *first..(*first + *len): rows i .. stop - 1.
RECURSIVE SliceValidityGroup(_, _, _, _)
SliceValidityGroup(old_validity, i, stop, st) ==
    IF i >= stop THEN st
    ELSE SliceValidityGroup(old_validity, i + 1, stop,
            [bits  |-> IF ~old_validity[i + 1]
                       THEN [st.bits EXCEPT ![st.count + 1] = FALSE]
                       ELSE st.bits,
             count |-> st.count + 1])

RECURSIVE SliceValidityPass(_, _, _, _)
SliceValidityPass(old_validity, slices, g, st) ==
    IF g > Len(slices) THEN st
    ELSE SliceValidityPass(old_validity, slices, g + 1,
            SliceValidityGroup(old_validity, slices[g][1],
                               slices[g][1] + slices[g][2], st))

SliceValidity(arr, slices, list_values) ==
    IF null_count(arr) > 0
    THEN [has  |-> TRUE,
          bits |-> SliceValidityPass(validity(arr), slices, 1,
                       [bits |-> from_len_set(Len(list_values)), count |-> 0]).bits]
    ELSE NoValidity

AggListNumericSlice(self, slices) ==
    LET arr == rechunk(self)
        st  == SlicePass(values(arr), slices, 1, PassInit)
    IN  ListColumn(st.offsets, st.list_values,
                   SliceValidity(arr, slices, st.list_values), st.can_fast_explode)

\* match groups { GroupsType::Idx(..) => .., GroupsType::Slice {..} => .. }
AggListNumeric(self, g) ==
    IF g.form = "Idx" THEN AggListNumericIdx(self, g.all)
    ELSE AggListNumericSlice(self, g.slices)

----------------------------------------------------------------------------
(* impl AggList for ObjectChunked<T>.  An object cell is an Option<T>: the  *)
(* cell itself stands for it (ok = FALSE: None).                            *)

\* ObjectChunked::take_unchecked(idx): the gathered rows, in one chunk.
take_unchecked(self, idx) == <<GatherIdx(rechunk(self), idx)>>

\* _slice_from_offsets(self, first, len): the slice of a chunked column is
\* chunked like the column: one piece per chunk the range reaches into, and
\* one empty chunk when the range is empty.
RECURSIVE SlicePieces(_, _, _)
SlicePieces(chunks, first, length) ==
    IF chunks = <<>> \/ length = 0 THEN <<>>
    ELSE LET n == Len(Head(chunks)) IN
         IF first >= n THEN SlicePieces(Tail(chunks), first - n, length)
         ELSE LET take == IF first + length > n THEN n - first ELSE length
              IN  <<SubSeq(Head(chunks), first + 1, first + take)>>
                  \o SlicePieces(Tail(chunks), 0, length - take)

_slice_from_offsets(self, first, length) ==
    LET pieces == SlicePieces(self, first, length)
    IN  IF pieces = <<>> THEN <<<<>>>> ELSE pieces

\* One call of the flat_map closure: the group's values and length, the
\* flag and the offsets, and the array whose elements the closure yields:
\* group_vals.downcast_iter().next().unwrap(), the FIRST chunk of group_vals.
ObjectStep(self, form, group, st) ==
    LET group_vals == IF form = "Idx" THEN take_unchecked(self, group)
                      ELSE _slice_from_offsets(self, group[1], group[2])
        length == IF form = "Idx" THEN Len(group) ELSE group[2]
        length_so_far == st.length_so_far + length
        arr == group_vals[1]
    IN  [can_fast_explode |-> IF length = 0 THEN FALSE ELSE st.can_fast_explode,
         length_so_far    |-> length_so_far,
         list_values      |-> st.list_values \o arr,
         offsets          |-> Append(st.offsets, length_so_far)]

\* create_extension drains the flat_map iterator: the closure runs once per
\* group, in group order, and every element it yields is stored.
RECURSIVE ObjectPass(_, _, _, _, _)
ObjectPass(self, form, gs, g, st) ==
    IF g > Len(gs) THEN st
    ELSE ObjectPass(self, form, gs, g + 1, ObjectStep(self, form, gs[g], st))

\* .trust_my_length(self.len()): the length the flat_map iterator is
\* declared to have before create_extension drains it.
trust_my_length(self) == len(self)

AggListObject(self, g) ==
    LET st == ObjectPass(self, g.form, IF g.form = "Idx" THEN g.all ELSE g.slices,
                         1, PassInit)
    IN  ListColumn(st.offsets, st.list_values, NoValidity, st.can_fast_explode)

----------------------------------------------------------------------------
(* impl AggList for NullChunked: only the group lengths are used.           *)

\* ListNullChunkedBuilder::append_with_len: the next offset is the last one
\* plus the length.
append_with_len(offsets, length) == Append(offsets, offsets[Len(offsets)] + length)

RECURSIVE NullPass(_, _, _)
NullPass(g, i, offsets) ==
    IF i > groups_len(g) THEN offsets
    ELSE NullPass(g, i + 1, append_with_len(offsets, group_len(g, i)))

\* builder.finish(): a list array over a null array as long as the last
\* offset; the flag is left unset.
AggListNull(self, g) ==
    LET offsets == NullPass(g, 1, <<0>>)
    IN  ListColumn(offsets,
                   [k \in 1..offsets[Len(offsets)] |-> [v |-> 0, ok |-> FALSE]],
                   NoValidity, FALSE)

----------------------------------------------------------------------------
(* impl AggList for StructChunked.  The value of a struct cell holds one    *)
(* value per field; row i holds FieldValueAt(f, i) in field f, so the row a *)
(* field value was gathered from can be read off the value.                 *)

StructFields == {"a", "b"}

FieldValueAt(f, i) == IF f = "a" THEN 10 + i ELSE 20 + i

\* self.dtype() of the struct column, and the dtype of its arrow array.
StructDtype == <<"Struct", <<"a: Int", "b: Text">>>>
StructArrowDtype == <<"struct", <<"a: int64", "b: large_utf8">>>>

StructCells(valid) ==
    [k \in 1..Len(valid) |->
        [v |-> [f \in StructFields |-> FieldValueAt(f, k - 1)], ok |-> valid[k]]]

\* The struct columns of n rows: no null row or one, in every layout.
StructSources(n) ==
    UNION {Layouts(StructCells([k \in 1..n |-> k /= null_row])) : null_row \in 0..n}

\* GroupsType::prepare_list_agg(total_len): the flat gather indices, the
\* list offsets and the fast-explode flag.  No gather indices are returned
\* for slices that are the column's own consecutive ranges: slice i starts
\* where slice i - 1 ends, from row 0 to the column's last row.
prepare_list_agg(g, total_len) ==
    LET n == groups_len(g)
        offsets == [i \in 1..(n + 1) |-> Sum([j \in 1..(i - 1) |-> group_len(g, j)])]
        direct == /\ g.form = "Slice"
                  /\ \A i \in 1..n : g.slices[i][1] = offsets[i]
                  /\ offsets[n + 1] = total_len
        flat == IF g.form = "Idx" THEN Concat(g.all)
                ELSE Concat([i \in 1..n |->
                               [k \in 1..g.slices[i][2] |-> g.slices[i][1] + k - 1]])
    IN  [gather  |-> IF direct THEN [some |-> FALSE, idx |-> <<>>]
                     ELSE [some |-> TRUE, idx |-> flat],
         offsets |-> offsets,
         can_fast_explode |-> \A i \in 1..n : group_len(g, i) > 0]

\* The array of one field of a struct array.
field_values(arr, f) == [k \in 1..Len(arr) |-> arr[k].v[f]]

\* Series::take_unchecked on a struct column: every field array, and the
\* validity, gathered by the same indices into one chunk.
struct_take_unchecked(self, gather) ==
    LET arr  == rechunk(self)
        cols == [f \in StructFields |-> GatherIdx(field_values(arr, f), gather)]
        ok   == GatherIdx(validity(arr), gather)
    IN  <<[k \in 1..Len(gather) |->
              [v |-> [f \in StructFields |-> cols[f][k]], ok |-> ok[k]]]>>

\* Mutant of AggListStruct: the gather indices are ignored and the column
\* is taken as it is.
AggListStructNoGather(self, g) ==
    LET p        == prepare_list_agg(g, len(self))
        gathered == <<rechunk(self)>>
        arr      == gathered[1]
    IN  [offsets |-> p.offsets, values |-> arr, validity |-> NoValidity,
         fast_explode |-> p.can_fast_explode, dtype |-> <<"List", StructDtype>>]

\* ListChunked::with_chunk types the column from the arrow array;
\* chunk.set_dtype(DataType::List(Box::new(self.dtype().clone()))) retypes it.
AggListStruct(self, g) ==
    LET p        == prepare_list_agg(g, len(self))
        gathered == IF p.gather.some THEN struct_take_unchecked(self, p.gather.idx)
                    ELSE <<rechunk(self)>>
        arr      == gathered[1]
        chunk    == [offsets |-> p.offsets, values |-> arr, validity |-> NoValidity,
                     fast_explode |-> FALSE, dtype |-> <<"List", StructArrowDtype>>]
    IN  [chunk EXCEPT !.dtype = <<"List", StructDtype>>,
                      !.fast_explode = p.can_fast_explode]

----------------------------------------------------------------------------
(* PySeries::from_arrow on a LargeList array.                               *)

\* array.offsets().as_slice().windows(2).all(|w| w[0] != w[1])
windows_all_differ(offsets) ==
    \A k \in 1..(Len(offsets) - 1) : offsets[k] /= offsets[k + 1]

from_arrow(array) ==
    [offsets |-> array.offsets, values |-> array.values,
     validity |-> array.validity,
     fast_explode |-> windows_all_differ(array.offsets)]

----------------------------------------------------------------------------
(* The aggregation engine as a state machine.                               *)

IterIdle ==
    /\ agg_state = "none"
    /\ column = <<>>
    /\ ngroups = 0
    /\ iter = [kind |-> "none"]
    /\ heap = <<>>
    /\ held = <<>>
    /\ log = <<>>
    /\ last = "none"

\* The columns of n rows of storage category t: every validity pattern
\* (a typed-null column has only nulls) in every layout.
Sources(t, n) ==
    UNION {Layouts(Cells(valid)) :
             valid \in IF t = "null" THEN {[k \in 1..n |-> FALSE]}
                       ELSE [1..n -> BOOLEAN]}

\* The partitions that are in bounds for a column of n rows.
Partitions(n) ==
    {GroupsIdx(all) : all \in IdxPartitions(n)}
    \cup {GroupsSlice(sl) : sl \in SlicePartitions(n)}

Init ==
    /\ dtype \in {"numeric", "object", "null", "struct"}
    /\ \E n \in 0..MaxRows :
           ca \in IF dtype = "struct" THEN StructSources(n) ELSE Sources(dtype, n)
    /\ groups = NoGroups
    /\ out = NoColumn
    /\ pyseries = NoColumn
    /\ pc = "ready"
    /\ IterIdle

\* Mutant of AggList: self.rechunk() rechunks the source column in place.
AggListRechunkInPlace ==
    /\ pc = "ready"
    /\ \E g \in Partitions(len(ca)) :
           /\ groups' = g
           /\ out' = CASE dtype = "numeric" -> AggListNumeric(ca, g)
                       [] dtype = "object"  -> AggListObject(ca, g)
                       [] dtype = "null"    -> AggListNull(ca, g)
                       [] dtype = "struct"  -> AggListStruct(ca, g)
    /\ ca' = <<rechunk(ca)>>
    /\ pc' = "aggregated"
    /\ UNCHANGED <<dtype, pyseries>>
    /\ UNCHANGED iterVars

\* agg_list(&self, groups) with any partition that is in bounds for self;
\* the implementation is the one of the column's storage category.
AggList ==
    /\ pc = "ready"
    /\ \E g \in Partitions(len(ca)) :
           /\ groups' = g
           /\ out' = CASE dtype = "numeric" -> AggListNumeric(ca, g)
                       [] dtype = "object"  -> AggListObject(ca, g)
                       [] dtype = "null"    -> AggListNull(ca, g)
                       [] dtype = "struct"  -> AggListStruct(ca, g)
    /\ pc' = "aggregated"
    /\ UNCHANGED <<dtype, ca, pyseries>>
    /\ UNCHANGED iterVars

\* The finished list column crosses the binding layer.
FromArrow ==
    /\ pc = "aggregated"
    /\ pyseries' = from_arrow(out)
    /\ pc' = "imported"
    /\ UNCHANGED <<dtype, ca, groups, out>>
    /\ UNCHANGED iterVars

Next == AggList \/ FromArrow

Spec == Init /\ [][Next]_vars

----------------------------------------------------------------------------
(* What a partition selects, read off the partition alone.                  *)

\* The rows of group i (1-based), in the order the group lists them.
GroupRows(g, i) ==
    IF g.form = "Idx" THEN g.all[i]
    ELSE [k \in 1..g.slices[i][2] |-> g.slices[i][1] + k - 1]

\* The rows of all groups, in group order.
FlatRows(g) == Concat([i \in 1..groups_len(g) |-> GroupRows(g, i)])

\* The cell of the source column at row r.
SourceCell(r) == Concat(ca)[r + 1]

NoEmptyGroup == \A i \in 1..groups_len(groups) : group_len(groups, i) >= 1

Aggregated == pc \in {"aggregated", "imported"}

\* List row i (1-based) of a list column: values[offsets[i] .. offsets[i+1]].
ListRow(col, i) == SubSeq(col.values, col.offsets[i] + 1, col.offsets[i + 1])

OffsetsWellFormed(col) ==
    /\ Len(col.offsets) = groups_len(groups) + 1
    /\ col.offsets[1] = 0
    /\ \A i \in 1..(Len(col.offsets) - 1) : col.offsets[i] <= col.offsets[i + 1]
    /\ col.offsets[Len(col.offsets)] = Len(col.values)

----------------------------------------------------------------------------
(* Claims about agg_list and from_arrow, checked under Spec.                *)

\* C1: for every in-bounds partition, of either form, the offsets agg_list
\* produces (numeric path and object path) have length groupCount + 1, start
\* at 0, never decrease, and end at the number of elements of the flattened
\* values.
C1_OffsetsWellFormed ==
    (Aggregated /\ dtype \in {"numeric", "object"}) => OffsetsWellFormed(out)

\* C1, the part that holds: on the numeric path (both forms) and on the
\* object path for index-list partitions and for single-chunk columns the
\* offsets are well formed.
C1_OffsetsWellFormedWhereGathered ==
    (Aggregated /\ (dtype = "numeric"
                    \/ (dtype = "object" /\ (groups.form = "Idx" \/ Len(ca) = 1))))
        => OffsetsWellFormed(out)

\* C2: on the numeric, object and typed-null paths, offsets[i+1] - offsets[i]
\* is the declared length of group i of the partition.
C2_OffsetDifferences ==
    Aggregated =>
        /\ Len(out.offsets) = groups_len(groups) + 1
        /\ \A i \in 1..groups_len(groups) :
               out.offsets[i + 1] - out.offsets[i] = group_len(groups, i)

C2_Witness ==
    /\ pc = "aggregated"
    /\ dtype = "numeric"
    /\ groups.form = "Idx"
    /\ groups.all = <<<<1, 1>>, <<>>>>
    /\ out.offsets = <<0, 2, 2>>

\* C3: on the numeric path the flattened values are the source values of the
\* rows of each group, in group order and in each group's own order, and
\* list row i read back through the offsets is group i's element sequence
\* (an empty group reads back as no rows).
C3_ValuesConcatenation ==
    (Aggregated /\ dtype = "numeric") =>
        LET rows == FlatRows(groups)
            source == Concat(ca)
        IN  /\ out.values = [k \in 1..Len(rows) |-> source[rows[k] + 1].v]
            /\ \A i \in 1..groups_len(groups) :
                   ListRow(out, i) = [k \in 1..group_len(groups, i) |->
                                         source[GroupRows(groups, i)[k] + 1].v]

C3_Witness ==
    /\ pc = "aggregated"
    /\ dtype = "numeric"
    /\ groups.form = "Idx"
    /\ groups.all = <<<<>>, <<2, 0>>>>
    /\ out.values = <<ValueAt(2), ValueAt(0)>>
    /\ ListRow(out, 1) = <<>>

EquivalentIdx(slices) ==
    [g \in 1..Len(slices) |-> [k \in 1..slices[g][2] |-> slices[g][1] + k - 1]]

\* C5: on the numeric path a slice partition yields the list column the
\* index-list path yields for the equivalent index-list partition: same
\* values, offsets, element validity and fast-explode flag.
C5_IdxSliceEquivalent ==
    (Aggregated /\ dtype = "numeric" /\ groups.form = "Slice") =>
        out = AggListNumericIdx(ca, EquivalentIdx(groups.slices))

C5_Witness ==
    /\ pc = "aggregated"
    /\ dtype = "numeric"
    /\ groups.form = "Slice"
    /\ groups.slices = <<<<1, 2>>, <<0, 0>>>>
    /\ ~SourceCell(2).ok
    /\ out.validity.has
    /\ out.values = <<ValueAt(1), ValueAt(2)>>

\* C6: on the numeric path a source without nulls yields no validity buffer;
\* a source with a null yields one bit per gathered element, bit k unset
\* exactly when the row gathered into position k is null.
C6_Validity ==
    (Aggregated /\ dtype = "numeric") =>
        LET rows == FlatRows(groups)
            source == Concat(ca)
        IN  IF \A r \in 1..Len(source) : source[r].ok
            THEN ~out.validity.has
            ELSE /\ out.validity.has
                 /\ Len(out.validity.bits) = Len(out.values)
                 /\ Len(out.validity.bits) = Len(rows)
                 /\ \A k \in 1..Len(rows) :
                        out.validity.bits[k] = source[rows[k] + 1].ok

C6_Witness ==
    /\ pc = "aggregated"
    /\ dtype = "numeric"
    /\ groups.form = "Idx"
    /\ groups.all = <<<<2>>, <<1>>>>
    /\ SourceCell(0).ok
    /\ ~SourceCell(1).ok
    /\ SourceCell(2).ok
    /\ out.validity = [has |-> TRUE, bits |-> <<TRUE, FALSE>>]

----------------------------------------------------------------------------
(* The amortized group iterators of group_iter.rs.                          *)
(*                                                                          *)
(* A series container lives on the heap at an address; heap[a] is the       *)
(* single array container a holds.  An AmortSeries is the address of its    *)
(* container: cloning it copies the Rc, so the clone has the same address.  *)
(* A yielded item is an Option<AmortSeries>.                                *)

ItemVals == {"null", "x", "y"}

\* Rc::new(Series::from_chunks_and_dtype_unchecked(name, vec![array], ..)):
\* a new container holding `array`, at the next free address.
NewContainer(h, array) == [heap |-> Append(h, array), addr |-> Len(h) + 1]

\* AmortSeries::swap(&mut arr): the container's array is replaced in place.
swap(h, item, arr) == [h EXCEPT ![item] = arr]

\* Array::sliced_unchecked(offset, length)
sliced_unchecked(arr, offset, length) == SubSeq(arr, offset + 1, offset + length)

SomeItem(item) == [some |-> TRUE, ref |-> item]
NoneItem == [some |-> FALSE, ref |-> 0]

EndOfSequence == [tag |-> "end", item |-> NoneItem]
Yield(item) == [tag |-> "item", item |-> item]

NoIter ==
    [kind |-> "none", len |-> 0, offset |-> 0, chunk_offset |-> 0,
     current_array |-> <<>>, chunks |-> <<>>, item |-> 0]

\* LitIter::new(array, len, logical, name)
LitIterNew(h, array, length) ==
    LET c == NewContainer(h, array)
    IN  [heap |-> c.heap,
         iter |-> [kind |-> "lit", len |-> length, offset |-> 0, chunk_offset |-> 0,
                   current_array |-> <<>>, chunks |-> <<>>, item |-> c.addr]]

\* Mutant of LitIterNext: the end test compares len with offset + 1.
LitIterNextOffByOne(it, h) ==
    IF it.len = it.offset + 1
    THEN [iter |-> it, heap |-> h, ret |-> EndOfSequence]
    ELSE [iter |-> [it EXCEPT !.offset = @ + 1], heap |-> h,
          ret |-> Yield(SomeItem(it.item))]

\* <LitIter as Iterator>::next
LitIterNext(it, h) ==
    IF it.len = it.offset
    THEN [iter |-> it, heap |-> h, ret |-> EndOfSequence]
    ELSE [iter |-> [it EXCEPT !.offset = @ + 1], heap |-> h,
          ret |-> Yield(SomeItem(it.item))]

\* <LitIter as Iterator>::size_hint: (self.len, Some(self.len))
LitIterSizeHint(it) == <<it.len, it.len>>

\* <FlatIter as Iterator>::size_hint:
\* (self.len - self.offset, Some(self.len - self.offset))
FlatIterSizeHint(it) == <<it.len - it.offset, it.len - it.offset>>

\* The stack FlatIter::new builds: the chunks pushed in reverse order.
Reverse(s) == [k \in 1..Len(s) |-> s[Len(s) + 1 - k]]

\* FlatIter::new(chunks, len, logical, name); chunks is not empty.
FlatIterNew(h, chunks, length) ==
    LET stack == Reverse(chunks)
        current_array == stack[Len(stack)]
        c == NewContainer(h, current_array)
    IN  [heap |-> c.heap,
         iter |-> [kind |-> "flat", len |-> length, offset |-> 0, chunk_offset |-> 0,
                   current_array |-> current_array,
                   chunks |-> SubSeq(stack, 1, Len(stack) - 1), item |-> c.addr]]

\* Mutant of FlatIterNext: chunk_offset is not reset when the next chunk
\* is popped.
RECURSIVE FlatIterNextNoReset(_, _)
FlatIterNextNoReset(it, h) ==
    IF it.len = it.offset
    THEN [iter |-> it, heap |-> h, ret |-> EndOfSequence]
    ELSE IF it.chunk_offset < Len(it.current_array)
    THEN [iter |-> [it EXCEPT !.offset = @ + 1, !.chunk_offset = @ + 1],
          heap |-> swap(h, it.item, sliced_unchecked(it.current_array, it.chunk_offset, 1)),
          ret  |-> Yield(SomeItem(it.item))]
    ELSE IF it.chunks /= <<>>
    THEN FlatIterNextNoReset(
             [it EXCEPT !.current_array = it.chunks[Len(it.chunks)],
                        !.chunks = SubSeq(it.chunks, 1, Len(it.chunks) - 1)], h)
    ELSE [iter |-> it, heap |-> h, ret |-> EndOfSequence]

\* Mutant of FlatIterNext: each advance puts the element in a container of
\* its own and the iterator's item becomes that container, instead of
\* swapping the array of the shared container.
RECURSIVE FlatIterNextFresh(_, _)
FlatIterNextFresh(it, h) ==
    IF it.len = it.offset
    THEN [iter |-> it, heap |-> h, ret |-> EndOfSequence]
    ELSE IF it.chunk_offset < Len(it.current_array)
    THEN LET c == NewContainer(h, sliced_unchecked(it.current_array, it.chunk_offset, 1))
         IN  [iter |-> [it EXCEPT !.offset = @ + 1, !.chunk_offset = @ + 1,
                                  !.item = c.addr],
              heap |-> c.heap,
              ret  |-> Yield(SomeItem(c.addr))]
    ELSE IF it.chunks /= <<>>
    THEN FlatIterNextFresh(
             [it EXCEPT !.current_array = it.chunks[Len(it.chunks)],
                        !.chunks = SubSeq(it.chunks, 1, Len(it.chunks) - 1),
                        !.chunk_offset = 0], h)
    ELSE [iter |-> it, heap |-> h, ret |-> EndOfSequence]

\* Mutant of FlatIterNext: a null scalar is yielded as None.
RECURSIVE FlatIterNextNullAsNone(_, _)
FlatIterNextNullAsNone(it, h) ==
    IF it.len = it.offset
    THEN [iter |-> it, heap |-> h, ret |-> EndOfSequence]
    ELSE IF it.chunk_offset < Len(it.current_array)
    THEN LET arr == sliced_unchecked(it.current_array, it.chunk_offset, 1)
         IN  [iter |-> [it EXCEPT !.offset = @ + 1, !.chunk_offset = @ + 1],
              heap |-> swap(h, it.item, arr),
              ret  |-> Yield(IF arr[1] = "null" THEN NoneItem ELSE SomeItem(it.item))]
    ELSE IF it.chunks /= <<>>
    THEN FlatIterNextNullAsNone(
             [it EXCEPT !.current_array = it.chunks[Len(it.chunks)],
                        !.chunks = SubSeq(it.chunks, 1, Len(it.chunks) - 1),
                        !.chunk_offset = 0], h)
    ELSE [iter |-> it, heap |-> h, ret |-> EndOfSequence]

\* Mutant of FlatIterNext: when the chunks are used up the advance rewinds
\* chunk_offset before it signals the end.
RECURSIVE FlatIterNextRewind(_, _)
FlatIterNextRewind(it, h) ==
    IF it.len = it.offset
    THEN [iter |-> it, heap |-> h, ret |-> EndOfSequence]
    ELSE IF it.chunk_offset < Len(it.current_array)
    THEN LET arr == sliced_unchecked(it.current_array, it.chunk_offset, 1)
         IN  [iter |-> [it EXCEPT !.offset = @ + 1, !.chunk_offset = @ + 1],
              heap |-> swap(h, it.item, arr),
              ret  |-> Yield(SomeItem(it.item))]
    ELSE IF it.chunks /= <<>>
    THEN FlatIterNextRewind(
             [it EXCEPT !.current_array = it.chunks[Len(it.chunks)],
                        !.chunks = SubSeq(it.chunks, 1, Len(it.chunks) - 1),
                        !.chunk_offset = 0], h)
    ELSE [iter |-> [it EXCEPT !.chunk_offset = 0], heap |-> h, ret |-> EndOfSequence]

\* Mutant of FlatIterNext: when the chunks are used up before the groups
\* the advance yields the cursor as it stands.
RECURSIVE FlatIterNextStale(_, _)
FlatIterNextStale(it, h) ==
    IF it.len = it.offset
    THEN [iter |-> it, heap |-> h, ret |-> EndOfSequence]
    ELSE IF it.chunk_offset < Len(it.current_array)
    THEN LET arr == sliced_unchecked(it.current_array, it.chunk_offset, 1)
         IN  [iter |-> [it EXCEPT !.offset = @ + 1, !.chunk_offset = @ + 1],
              heap |-> swap(h, it.item, arr),
              ret  |-> Yield(SomeItem(it.item))]
    ELSE IF it.chunks /= <<>>
    THEN FlatIterNextStale(
             [it EXCEPT !.current_array = it.chunks[Len(it.chunks)],
                        !.chunks = SubSeq(it.chunks, 1, Len(it.chunks) - 1),
                        !.chunk_offset = 0], h)
    ELSE [iter |-> [it EXCEPT !.offset = @ + 1], heap |-> h,
          ret |-> Yield(SomeItem(it.item))]

\* <FlatIter as Iterator>::next.  self.chunks.pop() takes the last element
\* of the stack; `return self.next()` is the recursive call.
RECURSIVE FlatIterNext(_, _)
FlatIterNext(it, h) ==
    IF it.len = it.offset
    THEN [iter |-> it, heap |-> h, ret |-> EndOfSequence]
    ELSE IF it.chunk_offset < Len(it.current_array)
    THEN LET arr == sliced_unchecked(it.current_array, it.chunk_offset, 1)
         IN  [iter |-> [it EXCEPT !.offset = @ + 1, !.chunk_offset = @ + 1],
              heap |-> swap(h, it.item, arr),
              ret  |-> Yield(SomeItem(it.item))]
    ELSE IF it.chunks /= <<>>
    THEN FlatIterNext(
             [it EXCEPT !.current_array = it.chunks[Len(it.chunks)],
                        !.chunks = SubSeq(it.chunks, 1, Len(it.chunks) - 1),
                        !.chunk_offset = 0], h)
    ELSE [iter |-> it, heap |-> h, ret |-> EndOfSequence]

\* ListChunked::amortized_iter_with_name: one reusable container; a list
\* entry is [null, elems] (a null list has no elements).
AmortizedIterNew(h) ==
    LET c == NewContainer(h, <<>>)
    IN  [heap |-> c.heap,
         iter |-> [kind |-> "list", len |-> 0, offset |-> 0, chunk_offset |-> 0,
                   current_array |-> <<>>, chunks |-> <<>>, item |-> c.addr]]

\* Advancing it: None for a null list, otherwise the container is pointed to
\* the list's elements and the item is yielded.
AmortizedIterNext(it, h, list) ==
    IF it.offset = Len(list)
    THEN [iter |-> it, heap |-> h, ret |-> EndOfSequence]
    ELSE LET entry == list[it.offset + 1]
             it2 == [it EXCEPT !.offset = @ + 1]
         IN  IF entry.null
             THEN [iter |-> it2, heap |-> h, ret |-> Yield(NoneItem)]
             ELSE [iter |-> it2, heap |-> swap(h, it.item, entry.elems),
                   ret |-> Yield(SomeItem(it.item))]

----------------------------------------------------------------------------
(* The iterators as a state machine.                                        *)

AggIdle ==
    /\ dtype = "none"
    /\ ca = <<>>
    /\ groups = NoGroups
    /\ out = NoColumn
    /\ pyseries = NoColumn
    /\ pc = "idle"

\* Every sequence of at most `total` values cut into k consecutive pieces
\* (pieces may be empty).
ChunkingsInto(total, k) ==
    UNION {{Cut(flat, lens) :
               flat \in [1..m -> ItemVals],
               lens \in {l \in [1..k -> 0..m] : Sum(l) = m}} :
           m \in 0..total}

IsListState(st) == st \in {"AggregatedList", "NotAggregated"}

\* The values of a Literal or AggregatedScalar context: at least one chunk.
FlatColumns(st) == UNION {ChunkingsInto(MaxVals, k) : k \in 1..MaxChunks}

\* The values of an AggregatedList context (or of a NotAggregated one once
\* self.aggregated() has grouped it): one list entry per group.
ListColumns(st) ==
    UNION {{c \in {[i \in 1..k |-> [null |-> nulls[i], elems |-> parts[i]]] :
                      parts \in ChunkingsInto(MaxVals, k),
                      nulls \in [1..k -> BOOLEAN]} :
               \A i \in 1..k : c[i].null => c[i].elems = <<>>} :
           k \in 0..MaxLen}

\* The values self.get_values() returns under aggregation state st.
Columns(st) == IF IsListState(st) THEN ListColumns(st) ELSE FlatColumns(st)

InitIter ==
    /\ agg_state \in {"Literal", "AggregatedScalar", "AggregatedList", "NotAggregated"}
    /\ column \in Columns(agg_state)
    /\ ngroups \in IF IsListState(agg_state) THEN {Len(column)} ELSE 0..MaxLen
    /\ iter = NoIter
    /\ heap = <<>>
    /\ held = <<>>
    /\ log = <<>>
    /\ last = "none"
    /\ AggIdle

\* AggregationContext::iter_groups: the iterator of the context's state.
IterGroups ==
    /\ iter.kind = "none"
    /\ LET r == CASE agg_state = "Literal" ->
                        LitIterNew(heap, rechunk(column), ngroups)
                  [] agg_state = "AggregatedScalar" ->
                        FlatIterNew(heap, column, ngroups)
                  [] IsListState(agg_state) ->
                        AmortizedIterNew(heap)
       IN  /\ iter' = r.iter
           /\ heap' = r.heap
    /\ UNCHANGED <<agg_state, column, ngroups, held, log, last>>
    /\ UNCHANGED aggVars

\* What an item shows: None, or the array its container holds.
Shown(h, item) ==
    IF item.some THEN [some |-> TRUE, view |-> h[item.ref]]
    ELSE [some |-> FALSE, view |-> <<>>]

\* The consumer calls next() and keeps the item it gets.
Advance(r) ==
    /\ iter' = r.iter
    /\ heap' = r.heap
    /\ last' = r.ret.tag
    /\ held' = IF r.ret.tag = "item" THEN Append(held, r.ret.item) ELSE held
    /\ log'  = IF r.ret.tag = "item" THEN Append(log, Shown(r.heap, r.ret.item)) ELSE log
    /\ UNCHANGED <<agg_state, column, ngroups>>
    /\ UNCHANGED aggVars

LitNext == iter.kind = "lit" /\ Advance(LitIterNext(iter, heap))

FlatNext == iter.kind = "flat" /\ Advance(FlatIterNext(iter, heap))

ListNext == iter.kind = "list" /\ Advance(AmortizedIterNext(iter, heap, column))

NextIter == IterGroups \/ LitNext \/ FlatNext \/ ListNext

SpecIter == InitIter /\ [][NextIter]_vars

----------------------------------------------------------------------------
(* Claims about the iterators, checked under SpecIter.                      *)

Constructed == iter.kind /= "none"

\* C7: under Literal with N groups the iterator yields exactly N items before
\* it signals the end, every item shows the one broadcast value, and the
\* container made at construction is never modified.
C7_LiteralYieldsN ==
    (Constructed /\ agg_state = "Literal") =>
        /\ Len(held) = iter.offset
        /\ Len(held) <= ngroups
        /\ last = "end" => Len(held) = ngroups
        /\ heap = <<rechunk(column)>>
        /\ \A k \in 1..Len(held) :
               /\ held[k] = SomeItem(1)
               /\ log[k] = [some |-> TRUE, view |-> rechunk(column)]

C7_Witness ==
    /\ agg_state = "Literal"
    /\ ngroups = 3
    /\ column = <<<<"x">>>>
    /\ last = "end"
    /\ Len(held) = 3
    /\ heap = <<<<"x">>>>

\* C8: under AggregatedScalar with one value per group (the chunks hold
\* ngroups values in all) the iterator yields exactly one item per group, in
\* group order: item k shows the one-element array of the k-th value of the
\* chunks concatenated, across chunk boundaries and empty chunks.
C8_FlatYieldsPerGroup ==
    (Constructed /\ agg_state = "AggregatedScalar" /\ len(column) = ngroups) =>
        /\ Len(held) = iter.offset
        /\ Len(held) <= ngroups
        /\ last = "end" => Len(held) = ngroups
        /\ \A k \in 1..Len(log) :
               log[k] = [some |-> TRUE, view |-> <<Concat(column)[k]>>]

C8_Witness ==
    /\ agg_state = "AggregatedScalar"
    /\ column = <<<<"x">>, <<>>, <<"y", "null">>>>
    /\ ngroups = 3
    /\ last = "end"
    /\ log = <<[some |-> TRUE, view |-> <<"x">>], [some |-> TRUE, view |-> <<"y">>],
               [some |-> TRUE, view |-> <<"null">>]>>

\* C9: every item the Literal and AggregatedScalar iterators returned is the
\* iterator's own cursor: each item still held shows what the most recently
\* yielded item shows, whatever it showed when it was returned.
C9_ItemsAliasCursor ==
    (Constructed /\ agg_state \in {"Literal", "AggregatedScalar"}) =>
        \A k \in 1..Len(held) :
            /\ held[k] = SomeItem(iter.item)
            /\ Shown(heap, held[k]) = log[Len(log)]

C9_Witness ==
    /\ agg_state = "AggregatedScalar"
    /\ Len(held) = 2
    /\ log[1].view = <<"x">>
    /\ log[2].view = <<"y">>
    /\ Shown(heap, held[1]).view = <<"y">>

\* C10: a yielded item is None only for a group whose list is null; an empty
\* non-null list yields an item showing an empty array; under Literal and
\* AggregatedScalar no yielded item is None, null scalars included.
C10_NoneOnlyForNullList ==
    Constructed =>
        /\ IsListState(agg_state) =>
               \A k \in 1..Len(held) :
                   /\ ~held[k].some <=> column[k].null
                   /\ ~column[k].null => log[k] = [some |-> TRUE, view |-> column[k].elems]
        /\ ~IsListState(agg_state) =>
               \A k \in 1..Len(held) : held[k].some /\ log[k].some

C10_Witness ==
    /\ agg_state = "AggregatedList"
    /\ column = <<[null |-> FALSE, elems |-> <<"x", "y">>],
                  [null |-> TRUE, elems |-> <<>>],
                  [null |-> FALSE, elems |-> <<>>]>>
    /\ last = "end"
    /\ held[1].some /\ ~held[2].some /\ held[3].some
    /\ log[3] = [some |-> TRUE, view |-> <<>>]

\* C10, the scalar case: a null scalar is yielded as a non-None item showing
\* the null.
C10_WitnessNullScalar ==
    /\ agg_state = "AggregatedScalar"
    /\ Len(held) = 1
    /\ held[1].some
    /\ log[1] = [some |-> TRUE, view |-> <<"null">>]

----------------------------------------------------------------------------
(* The iterators with a consumer that keeps pulling: an advance that can    *)
(* change the state is eventually made.                                     *)

\* No advance reads a value to decide whether to yield or to end, so the
\* contexts differ in the lengths of their chunks and lists and in which
\* lists are null, and every value is the same.
LiveShapesInto(total, k) ==
    UNION {{Cut([j \in 1..m |-> "x"], lens) :
               lens \in {l \in [1..k -> 0..m] : Sum(l) = m}} :
           m \in 0..total}

LiveColumns(st) ==
    IF IsListState(st)
    THEN UNION {{c \in {[i \in 1..k |-> [null |-> nulls[i], elems |-> parts[i]]] :
                           parts \in LiveShapesInto(MaxVals, k),
                           nulls \in [1..k -> BOOLEAN]} :
                    \A i \in 1..k : c[i].null => c[i].elems = <<>>} :
                k \in 0..MaxLen}
    ELSE UNION {LiveShapesInto(MaxVals, k) : k \in 1..MaxChunks}

InitIterLive ==
    /\ agg_state \in {"Literal", "AggregatedScalar", "AggregatedList", "NotAggregated"}
    /\ column \in LiveColumns(agg_state)
    /\ ngroups \in IF IsListState(agg_state) THEN {Len(column)} ELSE 0..MaxLen
    /\ iter = NoIter
    /\ heap = <<>>
    /\ held = <<>>
    /\ log = <<>>
    /\ last = "none"
    /\ AggIdle

SpecIterLive == InitIterLive /\ [][NextIter]_vars /\ WF_vars(NextIter)

\* C11: the group iterator is finite and non-restartable: a consumer that
\* keeps advancing reaches the end of the sequence, and from a state where
\* an advance returned the end every further advance returns the end and
\* yields no item.
C11_FiniteNonRestartable ==
    /\ <>(last = "end")
    /\ [][last = "end" => (last' = "end" /\ held' = held /\ log' = log)]_vars

\* FlatIter ended after skipping empty chunks, with fewer values than groups,
\* and the advance from that state returns the end again.
C11_Witness ==
    /\ agg_state = "AggregatedScalar"
    /\ column = <<<<>>, <<"x">>, <<>>>>
    /\ ngroups = 2
    /\ last = "end"
    /\ Len(held) = 1
    /\ FlatIterNext(iter, heap) = [iter |-> iter, heap |-> heap, ret |-> EndOfSequence]

----------------------------------------------------------------------------
(* Claims about the struct path and the inputs of agg_list, under Spec.     *)

C12_WitnessDirect ==
    /\ pc = "aggregated"
    /\ dtype = "struct"
    /\ Len(ca) = 2
    /\ groups.form = "Slice"
    /\ groups.slices = <<<<0, 1>>, <<1, 1>>>>
    /\ ~prepare_list_agg(groups, len(ca)).gather.some
    /\ out.values[2].v = [a |-> 11, b |-> 21]

C14_DeclaredLengthIsYielded ==
    (Aggregated /\ dtype = "object") =>
        /\ trust_my_length(ca) = Len(out.values)
        /\ trust_my_length(ca) =
               Sum([i \in 1..groups_len(groups) |-> group_len(groups, i)])

\* C14, the part that holds: when the groups reference as many rows as the
\* column has (as a partition listing every row once does) and each group's
\* values come in one chunk, the declared length is the yielded one.
C14_DeclaredLengthWhereRowsCovered ==
    (/\ Aggregated /\ dtype = "object"
     /\ Sum([i \in 1..groups_len(groups) |-> group_len(groups, i)]) = len(ca)
     /\ (groups.form = "Idx" \/ Len(ca) = 1))
        => trust_my_length(ca) = Len(out.values)

----------------------------------------------------------------------------
(* Claims about size_hint and the number of items, under SpecIter.          *)

\* size_hint of the iterator in place.
SizeHint(it) == IF it.kind = "lit" THEN LitIterSizeHint(it) ELSE FlatIterSizeHint(it)

\* The number of items the iterator yields from (it, h) on: the advances
\* made until one returns the end.
RECURSIVE Remaining(_, _)
Remaining(it, h) ==
    LET r == IF it.kind = "lit" THEN LitIterNext(it, h) ELSE FlatIterNext(it, h)
    IN  IF r.ret.tag = "end" THEN 0 ELSE 1 + Remaining(r.iter, r.heap)

\* C15: at every point of an iteration size_hint of LitIter and of FlatIter
\* reports, as lower and as upper bound, the number of items the iterator
\* will still yield, which is the group count minus the items yielded.
C15_SizeHintIsRemaining ==
    (Constructed /\ agg_state \in {"Literal", "AggregatedScalar"}) =>
        /\ SizeHint(iter) = <<Remaining(iter, heap), Remaining(iter, heap)>>
        /\ Remaining(iter, heap) = ngroups - Len(held)

\* C15, the part that holds: FlatIter's size_hint is the group count minus
\* the items yielded, and it is the number of items still to come when the
\* chunks hold at least one value per group; LitIter's size_hint is the
\* number of items still to come before the first advance only.
C15_SizeHintWhereExact ==
    /\ (Constructed /\ agg_state = "AggregatedScalar") =>
           /\ SizeHint(iter) = <<ngroups - Len(held), ngroups - Len(held)>>
           /\ len(column) >= ngroups =>
                  SizeHint(iter) = <<Remaining(iter, heap), Remaining(iter, heap)>>
    /\ (Constructed /\ agg_state = "Literal") =>
           /\ Remaining(iter, heap) = ngroups - Len(held)
           /\ SizeHint(iter) = <<ngroups, ngroups>>

\* LitIter over one group after its one item: size_hint still reports one.
C15_FailingState ==
    /\ agg_state = "Literal"
    /\ ngroups = 1
    /\ Len(held) = 1
    /\ SizeHint(iter) = <<1, 1>>
    /\ Remaining(iter, heap) = 0

Min(a, b) == IF a <= b THEN a ELSE b

\* C16: FlatIter yields min(group count, number of values over all chunks)
\* items: never more than that, exactly that many once an advance returned
\* the end, item k showing the k-th value of the chunks; and in every
\* state offset <= len and chunk_offset <= current_array.len().
C16_FlatYieldsMin ==
    (Constructed /\ agg_state = "AggregatedScalar") =>
        /\ Len(held) = iter.offset
        /\ Len(held) <= Min(ngroups, len(column))
        /\ last = "end" => Len(held) = Min(ngroups, len(column))
        /\ iter.offset <= iter.len
        /\ iter.chunk_offset <= Len(iter.current_array)
        /\ \A k \in 1..Len(log) :
               log[k] = [some |-> TRUE, view |-> <<Concat(column)[k]>>]

\* Fewer values than groups: the iterator ends after the one value.
C16_Witness ==
    /\ agg_state = "AggregatedScalar"
    /\ column = <<<<"x">>, <<>>>>
    /\ ngroups = 3
    /\ last = "end"
    /\ Len(held) = 1
    /\ iter.offset = 1 /\ iter.chunk_offset = 0 /\ iter.chunks = <<>>

\* More values than groups: the iterator stops after group count items.
C16_WitnessMoreValues ==
    /\ agg_state = "AggregatedScalar"
    /\ column = <<<<"x", "y">>, <<"null">>>>
    /\ ngroups = 2
    /\ last = "end"
    /\ Len(held) = 2
    /\ iter.chunks = <<<<"null">>>>

============================================================================
